---------------------------- MODULE Spec2Model ----------------------------
(***************************************************************************)
(* Model of the Todoist MCP server (src/todoist_mcp.py): twelve tools,     *)
(* each validating a structured input, issuing at most one HTTP request    *)
(* and rendering the response (or the failure) as one string.              *)
(*                                                                         *)
(* Python strings are sequences of pieces [s, n]: s is the text of the     *)
(* piece (a literal of the source, or a name standing for a value the      *)
(* caller or the remote API chose) and n its number of characters.  A      *)
(* character is a piece of length 1.  Optional[T] is the empty set (None)  *)
(* or a singleton {v}.  A dict is a function from its keys.  In the text   *)
(* of a piece the backquote is written ' and an emoji <name>.              *)
(*                                                                         *)
(* A record constructor lists its fields in the order in which TLC keeps   *)
(* them (the order in which the names first occur in this module), so a    *)
(* record is in its stored form from the moment it is built and is never   *)
(* reordered while several workers read it.                                *)
(***************************************************************************)
EXTENDS Integers, Sequences, FiniteSets, TLC

VARIABLES env, inv

vars == <<env, inv>>

(***************************** bounds **************************************)
\* Number of invocation slots of the host.
NProcs == 2

Procs == 1..NProcs

(************************ strings and optionals ****************************)
None == {}

Some(v) == {v}

Val(o) == CHOOSE v \in o : TRUE

P(str, n) == [n |-> n, s |-> str]

\* A string made of one literal piece of n characters.
Lit(str, n) == <<P(str, n)>>

\* A string given character by character.
Chars(cs) == [i \in DOMAIN cs |-> P(cs[i], 1)]

RECURSIVE StrLen(_)
\* len(s)
StrLen(str) == IF str = <<>> THEN 0 ELSE Head(str).n + StrLen(Tail(str))

\* Python truthiness of a str: the empty string is falsy.
Truthy(str) == StrLen(str) > 0

RECURSIVE Canon(_)
\* Pieces of length 0 hold no character: a string has none.
Canon(str) ==
    IF str = <<>> THEN <<>>
    ELSE IF Head(str).n = 0 THEN Canon(Tail(str))
    ELSE <<Head(str)>> \o Canon(Tail(str))

RECURSIVE Take(_, _)
\* s[:k]
Take(str, k) ==
    IF str = <<>> \/ k <= 0 THEN <<>>
    ELSE IF Head(str).n <= k
         THEN <<Head(str)>> \o Take(Tail(str), k - Head(str).n)
         ELSE <<P(Head(str).s, k)>>

Whitespace == {" ", "\t", "\n"}

IsSpace(p) == p.s \in Whitespace

RECURSIVE LStrip(_)
LStrip(str) ==
    IF str # <<>> /\ IsSpace(Head(str)) THEN LStrip(Tail(str)) ELSE str

RECURSIVE RStrip(_)
RStrip(str) ==
    IF str # <<>> /\ IsSpace(str[Len(str)])
    THEN RStrip(SubSeq(str, 1, Len(str) - 1))
    ELSE str

\* pydantic's str_strip_whitespace: str.strip()
Strip(str) == RStrip(LStrip(str))

RECURSIVE Join(_, _)
\* sep.join(strs)
Join(sep, strs) ==
    IF strs = <<>> THEN <<>>
    ELSE IF Len(strs) = 1 THEN Head(strs)
    ELSE Head(strs) \o sep \o Join(sep, Tail(strs))

NL == Lit("\n", 1)

\* str(n) of an integer
IntStr(n) == Lit(ToString(n), IF n < 0 THEN Len(ToString(-n)) + 1 ELSE Len(ToString(n)))

(****************************** dicts **************************************)
EmptyDict == [k \in {} |-> {}]

Put(d, k, v) == [x \in (DOMAIN d) \cup {k} |-> IF x = k THEN v ELSE d[x]]

Has(d, k) == k \in DOMAIN d

(************************ datetime.strptime ********************************)
Digits == {"0", "1", "2", "3", "4", "5", "6", "7", "8", "9"}

DigitVal(c) ==
    CASE c = "0" -> 0 [] c = "1" -> 1 [] c = "2" -> 2 [] c = "3" -> 3
      [] c = "4" -> 4 [] c = "5" -> 5 [] c = "6" -> 6 [] c = "7" -> 7
      [] c = "8" -> 8 [] c = "9" -> 9

IsDigit(p) == p.n = 1 /\ p.s \in Digits

IsLeap(y) == (y % 4 = 0 /\ y % 100 # 0) \/ y % 400 = 0

DaysInMonth(y, m) ==
    IF m = 2 THEN (IF IsLeap(y) THEN 29 ELSE 28)
    ELSE IF m \in {4, 6, 9, 11} THEN 30 ELSE 31

\* The one- or two-character month or day field str[a..b] of strptime's
\* regular expression: 1-9, 01-09, 10-.., and for %d also " 1".." 9".
FieldOk(str, a, b, spaceOk) ==
    \/ a = b /\ IsDigit(str[a]) /\ str[a].s # "0"
    \/ b = a + 1 /\ IsDigit(str[a]) /\ IsDigit(str[b])
    \/ b = a + 1 /\ spaceOk /\ str[a] = P(" ", 1) /\ IsDigit(str[b]) /\ str[b].s # "0"

FieldVal(str, a, b) ==
    IF a = b THEN DigitVal(str[a].s)
    ELSE IF IsDigit(str[a]) THEN 10 * DigitVal(str[a].s) + DigitVal(str[b].s)
    ELSE DigitVal(str[b].s)

\* datetime.strptime(v, "%Y-%m-%d") returns (does not raise ValueError):
\* four digits, "-", a month, "-", a day and nothing after it, naming a
\* day of the calendar.  The month and the day may be written without a
\* leading zero.
StrptimeOk(str) ==
    \E ml \in {1, 2}, dl \in {1, 2} :
        /\ Len(str) = 6 + ml + dl
        /\ \A i \in 1..4 : IsDigit(str[i])
        /\ str[5] = P("-", 1)
        /\ str[6 + ml] = P("-", 1)
        /\ FieldOk(str, 6, 5 + ml, FALSE)
        /\ FieldOk(str, 7 + ml, 6 + ml + dl, TRUE)
        /\ LET y == 1000 * DigitVal(str[1].s) + 100 * DigitVal(str[2].s)
                    + 10 * DigitVal(str[3].s) + DigitVal(str[4].s)
               m == FieldVal(str, 6, 5 + ml)
               d == FieldVal(str, 7 + ml, 6 + ml + dl)
           IN  y >= 1 /\ m \in 1..12 /\ d \in 1..DaysInMonth(y, m)


(************************ pydantic input models ****************************)
\* What the host passes for one call: every field a tool's model may name,
\* each absent (None) or supplied.
FieldNames ==
    {"project_id", "task_id", "name", "content", "description", "due_string",
     "due_date", "priority", "labels", "limit", "response_format", "parent_id",
     "color", "is_favorite", "label", "filter"}

NoArgs == [f \in FieldNames |-> None]

Tools ==
    {"todoist_list_projects", "todoist_get_project", "todoist_create_project",
     "todoist_list_tasks", "todoist_get_task", "todoist_create_task",
     "todoist_update_task", "todoist_complete_task", "todoist_reopen_task",
     "todoist_delete_task", "todoist_list_labels", "todoist_create_label"}

FieldError(loc, msg) == [loc |-> loc, msg |-> msg]

\* A str field of a model without str_strip_whitespace: the value is kept
\* as passed, and only its length is constrained.
StrFieldUnstripped(raw, name, required, minLen, maxLen) ==
    IF raw[name] = None
    THEN [val |-> None,
          errs |-> IF required THEN {FieldError(name, "Field required")} ELSE {}]
    ELSE [val |-> raw[name],
          errs |->
              (IF minLen # None /\ StrLen(Val(raw[name])) < Val(minLen)
               THEN {FieldError(name, "String should have at least min_length characters")}
               ELSE {})
              \cup
              (IF maxLen # None /\ StrLen(Val(raw[name])) > Val(maxLen)
               THEN {FieldError(name, "String should have at most max_length characters")}
               ELSE {})]

\* A str field under ConfigDict(str_strip_whitespace=True): stripped, then
\* Field(min_length=.., max_length=..).  minLen, maxLen: None or {n}.
StrField(raw, name, required, minLen, maxLen) ==
    IF raw[name] = None
    THEN [val |-> None,
          errs |-> IF required THEN {FieldError(name, "Field required")} ELSE {}]
    ELSE LET v == Strip(Val(raw[name]))
         IN  [val |-> Some(v),
              errs |->
                  (IF minLen # None /\ StrLen(v) < Val(minLen)
                   THEN {FieldError(name, "String should have at least min_length characters")}
                   ELSE {})
                  \cup
                  (IF maxLen # None /\ StrLen(v) > Val(maxLen)
                   THEN {FieldError(name, "String should have at most max_length characters")}
                   ELSE {})]

\* response_format: ResponseFormat = Field(default=ResponseFormat.MARKDOWN)
FormatField(raw) ==
    IF raw.response_format = None THEN [val |-> Some("markdown"), errs |-> {}]
    ELSE IF Val(raw.response_format) \in {"markdown", "json"}
    THEN [val |-> raw.response_format, errs |-> {}]
    ELSE [val |-> None,
          errs |-> {FieldError("response_format", "Input should be 'markdown' or 'json'")}]

\* priority: Optional[TaskPriority], an int Enum with the members 1..4
PriorityField(raw) ==
    IF raw.priority = None THEN [val |-> None, errs |-> {}]
    ELSE IF Val(raw.priority) \in 1..4
    THEN [val |-> raw.priority, errs |-> {}]
    ELSE [val |-> None,
          errs |-> {FieldError("priority", "Input should be 1, 2, 3 or 4")}]

\* limit: int = Field(default=50, ge=1, le=200)
LimitField(raw) ==
    IF raw.limit = None THEN [val |-> Some(50), errs |-> {}]
    ELSE IF Val(raw.limit) < 1
    THEN [val |-> None,
          errs |-> {FieldError("limit", "Input should be greater than or equal to 1")}]
    ELSE IF Val(raw.limit) > 200
    THEN [val |-> None,
          errs |-> {FieldError("limit", "Input should be less than or equal to 200")}]
    ELSE [val |-> raw.limit, errs |-> {}]

\* labels: Optional[list[str]]; each element is stripped
LabelsField(raw) ==
    IF raw.labels = None THEN [val |-> None, errs |-> {}]
    ELSE [val |-> Some([i \in DOMAIN Val(raw.labels) |-> Strip(Val(raw.labels)[i])]),
          errs |-> {}]

\* is_favorite: bool = Field(default=False)
FavoriteField(raw) ==
    IF raw.is_favorite = None THEN [val |-> Some(FALSE), errs |-> {}]
    ELSE [val |-> raw.is_favorite, errs |-> {}]

\* CreateTaskInput.validate_due_date: runs on the stripped value
validate_due_date(f) ==
    IF f.errs = {} /\ f.val # None /\ Truthy(Val(f.val)) /\ ~StrptimeOk(Val(f.val))
    THEN [val |-> None,
          errs |-> {FieldError("due_date", "Value error, due_date must be in YYYY-MM-DD format")}]
    ELSE f

\* The fields of each tool's input model, validated: name :> [val, errs].
ModelFields(tool, raw) ==
    CASE tool \in {"todoist_list_projects", "todoist_list_labels"} ->
            [response_format |-> FormatField(raw)]
      [] tool = "todoist_get_project" ->
            [response_format |-> FormatField(raw),
             project_id |-> StrField(raw, "project_id", TRUE, Some(1), None)]
      [] tool = "todoist_create_project" ->
            [name |-> StrField(raw, "name", TRUE, Some(1), Some(500)),
             is_favorite |-> FavoriteField(raw),
             parent_id |-> StrField(raw, "parent_id", FALSE, None, None),
             color |-> StrField(raw, "color", FALSE, None, None)]
      [] tool = "todoist_list_tasks" ->
            [response_format |-> FormatField(raw),
             limit |-> LimitField(raw),
             project_id |-> StrField(raw, "project_id", FALSE, None, None),
             label |-> StrField(raw, "label", FALSE, None, None),
             filter |-> StrField(raw, "filter", FALSE, None, None)]
      [] tool = "todoist_get_task" ->
            [response_format |-> FormatField(raw),
             task_id |-> StrField(raw, "task_id", TRUE, Some(1), None)]
      [] tool = "todoist_create_task" ->
            [priority |-> PriorityField(raw),
             labels |-> LabelsField(raw),
             project_id |-> StrField(raw, "project_id", FALSE, None, None),
             parent_id |-> StrField(raw, "parent_id", FALSE, None, None),
             content |-> StrField(raw, "content", TRUE, Some(1), Some(5000)),
             description |-> StrField(raw, "description", FALSE, None, Some(16000)),
             due_string |-> StrField(raw, "due_string", FALSE, None, None),
             due_date |-> validate_due_date(StrField(raw, "due_date", FALSE, None, None))]
      [] tool = "todoist_update_task" ->
            [priority |-> PriorityField(raw),
             labels |-> LabelsField(raw),
             task_id |-> StrField(raw, "task_id", TRUE, Some(1), None),
             content |-> StrField(raw, "content", FALSE, None, Some(5000)),
             description |-> StrField(raw, "description", FALSE, None, Some(16000)),
             due_string |-> StrField(raw, "due_string", FALSE, None, None),
             due_date |-> StrField(raw, "due_date", FALSE, None, None)]
      [] tool \in {"todoist_complete_task", "todoist_reopen_task", "todoist_delete_task"} ->
            [task_id |-> StrField(raw, "task_id", TRUE, Some(1), None)]
      [] tool = "todoist_create_label" ->
            [name |-> StrField(raw, "name", TRUE, Some(1), Some(255)),
             is_favorite |-> FavoriteField(raw),
             color |-> StrField(raw, "color", FALSE, None, None)]

\* Constructing the tool's input model from the host's arguments: the
\* validated fields (the others stay None) and every field's errors.
Validate(tool, raw) ==
    LET fs == ModelFields(tool, raw)
    IN  [errs |-> UNION {fs[f].errs : f \in DOMAIN fs},
         params |-> [f \in FieldNames |-> IF f \in DOMAIN fs THEN fs[f].val ELSE None]]

(***************************** exceptions **********************************)
\* The exception classes a call can meet, each with its base classes.
Bases(type) ==
    CASE type = "HTTPStatusError" -> {"HTTPStatusError", "HTTPError", "Exception"}
      [] type = "ReadTimeout" ->
            {"ReadTimeout", "TimeoutException", "TransportError", "HTTPError", "Exception"}
      [] type = "ConnectError" ->
            {"ConnectError", "TransportError", "HTTPError", "Exception"}
      [] type = "JSONDecodeError" -> {"JSONDecodeError", "ValueError", "Exception"}
      [] type = "ValidationError" -> {"ValidationError", "ValueError", "Exception"}
      [] type = "ValueError" -> {"ValueError", "Exception"}
      [] type = "KeyError" -> {"KeyError", "LookupError", "Exception"}
      [] type = "TypeError" -> {"TypeError", "Exception"}
      [] type = "AttributeError" -> {"AttributeError", "Exception"}

IsInstance(e, cls) == cls \in Bases(e.type)

\* type(e).__name__
TypeName(e) ==
    CASE e.type = "HTTPStatusError" -> Lit("HTTPStatusError", 15)
      [] e.type = "ReadTimeout" -> Lit("ReadTimeout", 11)
      [] e.type = "ConnectError" -> Lit("ConnectError", 12)
      [] e.type = "JSONDecodeError" -> Lit("JSONDecodeError", 15)
      [] e.type = "ValidationError" -> Lit("ValidationError", 15)
      [] e.type = "ValueError" -> Lit("ValueError", 10)
      [] e.type = "KeyError" -> Lit("KeyError", 8)
      [] e.type = "TypeError" -> Lit("TypeError", 9)
      [] e.type = "AttributeError" -> Lit("AttributeError", 14)

\* An exception: its class, str(e), the response's status (HTTPStatusError)
\* and the field errors (ValidationError).
Exc(type, msg) == [msg |-> msg, type |-> type, status |-> 0, errors |-> {}]

HTTPStatusError(status) ==
    [msg |-> Lit("<status error>", 40), type |-> "HTTPStatusError",
     status |-> status, errors |-> {}]

ValidationError(errs) ==
    [msg |-> Lit("<validation errors>", 60), type |-> "ValidationError",
     status |-> 0, errors |-> errs]

NoExc == Exc("", <<>>)

KeyError(key, n) == Exc("KeyError", Lit("'", 1) \o Lit(key, n) \o Lit("'", 1))

(*************************** shared utilities ******************************)
API_BASE_URL == Lit("https://api.todoist.com/rest/v2", 31)

CHARACTER_LIMIT == 25000

TokenErrorMessage ==
    Lit("TODOIST_API_TOKEN environment variable not set. ", 48)
    \o Lit("Get your token from: Todoist Settings -> Integrations -> Developer -> API token", 76)

\* A reader of the variable that takes the empty string for a token
TokenUnlessAbsent(environ) ==
    IF environ = None
    THEN [ok |-> FALSE, token |-> <<>>, exc |-> Exc("ValueError", TokenErrorMessage)]
    ELSE [ok |-> TRUE, token |-> Val(environ), exc |-> NoExc]

\* _get_api_token: the token, or the ValueError raised when the variable
\* is unset or empty.  environ: None or {token}.
_get_api_token(environ) ==
    IF environ = None \/ ~Truthy(Val(environ))
    THEN [ok |-> FALSE, token |-> <<>>, exc |-> Exc("ValueError", TokenErrorMessage)]
    ELSE [ok |-> TRUE, token |-> Val(environ), exc |-> NoExc]

ErrorPrefix == Lit("Error: ", 7)

\* _handle_api_error, the branch of an httpx.HTTPStatusError
StatusMessage(status) ==
    IF status = 400
    THEN ErrorPrefix \o Lit("Invalid request. Check your parameters are correct.", 51)
    ELSE IF status = 401
    THEN ErrorPrefix \o Lit("Invalid API token. Check TODOIST_API_TOKEN is correct.", 54)
    ELSE IF status = 403
    THEN ErrorPrefix \o Lit("Permission denied. You may not have access to this resource.", 60)
    ELSE IF status = 404
    THEN ErrorPrefix \o Lit("Resource not found. Check the ID is correct.", 44)
    ELSE IF status = 429
    THEN ErrorPrefix \o Lit("Rate limit exceeded. Please wait before making more requests.", 61)
    ELSE IF status >= 500
    THEN ErrorPrefix \o Lit("Todoist server error. Please try again later.", 45)
    ELSE ErrorPrefix \o Lit("API request failed with status ", 31) \o IntStr(status)

\* _handle_api_error
_handle_api_error(e) ==
    IF IsInstance(e, "HTTPStatusError") THEN StatusMessage(e.status)
    ELSE IF IsInstance(e, "TimeoutException")
    THEN ErrorPrefix \o Lit("Request timed out. Please try again.", 36)
    ELSE IF IsInstance(e, "ValueError") THEN Canon(ErrorPrefix \o e.msg)
    ELSE Canon(ErrorPrefix \o TypeName(e) \o Lit(": ", 2) \o e.msg)

(**************************** JSON values **********************************)
\* A decoded JSON value (and any Python value built from one): its type t
\* and its value, in the field of that type (s: str, i: int, b: bool,
\* l: list, d: dict).
JNull == [s |-> <<>>, i |-> 0, d |-> EmptyDict, b |-> FALSE, t |-> "null", l |-> <<>>]

JStr(str) == [JNull EXCEPT !.t = "str", !.s = str]

JInt(n) == [JNull EXCEPT !.t = "int", !.i = n]

JBool(b) == [JNull EXCEPT !.t = "bool", !.b = b]

JList(items) == [JNull EXCEPT !.t = "list", !.l = items]

JDict(d) == [JNull EXCEPT !.t = "dict", !.d = d]

\* bool(x)
PyTruthy(j) ==
    CASE j.t = "null" -> FALSE
      [] j.t = "bool" -> j.b
      [] j.t = "int" -> j.i # 0
      [] j.t = "str" -> Truthy(j.s)
      [] j.t = "list" -> j.l # <<>>
      [] j.t = "dict" -> DOMAIN j.d # {}

\* str(x), as an f-string formats a value
Fmt(j) ==
    CASE j.t = "str" -> j.s
      [] j.t = "int" -> IntStr(j.i)
      [] j.t = "null" -> Lit("None", 4)
      [] j.t = "bool" -> IF j.b THEN Lit("True", 4) ELSE Lit("False", 5)

\* d.get(key, default) of a dict
Get(j, key, default) == IF Has(j.d, key) THEN j.d[key] ELSE default

\* json.dumps(value, indent=2): one piece, holding the value it serializes.
JsonDumps(j) == <<[n |-> 2, s |-> "json.dumps(indent=2)", j |-> j]>>

(*********************** the tools' request builders ***********************)
TruthyOpt(o) == o # None /\ Truthy(Val(o))

\* A call of _make_api_request(endpoint, method, json_data, params)
Call(endpoint, method, json_data, params) ==
    [params |-> params, endpoint |-> endpoint, method |-> method, json_data |-> json_data]

PutIf(cond, d, k, v) == IF cond THEN Put(d, k, v) ELSE d

\* todoist_create_project, lines 500-506
create_project_data(p) ==
    LET d0 == Put(EmptyDict, "name", JStr(Val(p.name)))
        d1 == PutIf(TruthyOpt(p.parent_id), d0, "parent_id", JStr(Val(p.parent_id)))
        d2 == PutIf(TruthyOpt(p.color), d1, "color", JStr(Val(p.color)))
    IN  PutIf(Val(p.is_favorite), d2, "is_favorite", JBool(Val(p.is_favorite)))

\* todoist_list_tasks, lines 551-557
list_tasks_query(p) ==
    LET d0 == PutIf(TruthyOpt(p.project_id), EmptyDict, "project_id", JStr(Val(p.project_id)))
        d1 == PutIf(TruthyOpt(p.label), d0, "label", JStr(Val(p.label)))
    IN  PutIf(TruthyOpt(p.filter), d1, "filter", JStr(Val(p.filter)))

LabelList(o) == JList([i \in DOMAIN Val(o) |-> JStr(Val(o)[i])])

\* A due field that carries due_string and due_date alike
due_both(p, d) ==
    PutIf(TruthyOpt(p.due_date),
          PutIf(TruthyOpt(p.due_string), d, "due_string", JStr(Val(p.due_string))),
          "due_date", JStr(Val(p.due_date)))

\* The due field of create-task and update-task: due_string, else due_date
due_data(p, d) ==
    IF TruthyOpt(p.due_string) THEN Put(d, "due_string", JStr(Val(p.due_string)))
    ELSE IF TruthyOpt(p.due_date) THEN Put(d, "due_date", JStr(Val(p.due_date)))
    ELSE d

\* todoist_create_task, lines 680-695
create_task_data(p) ==
    LET d0 == Put(EmptyDict, "content", JStr(Val(p.content)))
        d1 == PutIf(TruthyOpt(p.description), d0, "description", JStr(Val(p.description)))
        d2 == PutIf(TruthyOpt(p.project_id), d1, "project_id", JStr(Val(p.project_id)))
        d3 == due_data(p, d2)
        d4 == PutIf(p.priority # None, d3, "priority", JInt(Val(p.priority)))
        d5 == PutIf(p.labels # None /\ Val(p.labels) # <<>>, d4, "labels", LabelList(p.labels))
    IN  PutIf(TruthyOpt(p.parent_id), d5, "parent_id", JStr(Val(p.parent_id)))

\* todoist_update_task, lines 736-749
update_task_data(p) ==
    LET d0 == PutIf(TruthyOpt(p.content), EmptyDict, "content", JStr(Val(p.content)))
        d1 == PutIf(p.description # None, d0, "description", JStr(Val(p.description)))
        d2 == due_data(p, d1)
        d3 == PutIf(p.priority # None, d2, "priority", JInt(Val(p.priority)))
    IN  PutIf(p.labels # None, d3, "labels", LabelList(p.labels))

\* todoist_create_label, lines 932-936
create_label_data(p) ==
    LET d0 == Put(EmptyDict, "name", JStr(Val(p.name)))
        d1 == PutIf(TruthyOpt(p.color), d0, "color", JStr(Val(p.color)))
    IN  PutIf(Val(p.is_favorite), d1, "is_favorite", JBool(Val(p.is_favorite)))

NoFieldsMessage ==
    ErrorPrefix \o Lit("No fields to update. Provide at least one field to change.", 58)

\* A body that never takes the branch of lines 751-752
DataNeverEmpty(data) == FALSE

\* todoist_update_task, lines 751-752: if not data
NothingToUpdate(data) == DOMAIN data = {}

NoCall == Call(<<>>, "", None, None)

\* Each tool's body up to its await of _make_api_request: the call it
\* makes, or the string it returns without making one.
Prepare(tool, p) ==
    CASE tool = "todoist_list_projects" ->
            [return |-> FALSE, result |-> <<>>,
             call |-> Call(Lit("projects", 8), "GET", None, None)]
      [] tool = "todoist_get_project" ->
            [return |-> FALSE, result |-> <<>>,
             call |-> Call(Lit("projects/", 9) \o Val(p.project_id), "GET", None, None)]
      [] tool = "todoist_create_project" ->
            [return |-> FALSE, result |-> <<>>,
             call |-> Call(Lit("projects", 8), "POST", Some(create_project_data(p)), None)]
      [] tool = "todoist_list_tasks" ->
            [return |-> FALSE, result |-> <<>>,
             call |-> Call(Lit("tasks", 5), "GET", None, Some(list_tasks_query(p)))]
      [] tool = "todoist_get_task" ->
            [return |-> FALSE, result |-> <<>>,
             call |-> Call(Lit("tasks/", 6) \o Val(p.task_id), "GET", None, None)]
      [] tool = "todoist_create_task" ->
            [return |-> FALSE, result |-> <<>>,
             call |-> Call(Lit("tasks", 5), "POST", Some(create_task_data(p)), None)]
      [] tool = "todoist_update_task" ->
            IF NothingToUpdate(update_task_data(p))
            THEN [return |-> TRUE, result |-> NoFieldsMessage, call |-> NoCall]
            ELSE [return |-> FALSE, result |-> <<>>,
                  call |-> Call(Lit("tasks/", 6) \o Val(p.task_id), "POST",
                                Some(update_task_data(p)), None)]
      [] tool = "todoist_complete_task" ->
            [return |-> FALSE, result |-> <<>>,
             call |-> Call(Lit("tasks/", 6) \o Val(p.task_id) \o Lit("/close", 6),
                           "POST", None, None)]
      [] tool = "todoist_reopen_task" ->
            [return |-> FALSE, result |-> <<>>,
             call |-> Call(Lit("tasks/", 6) \o Val(p.task_id) \o Lit("/reopen", 7),
                           "POST", None, None)]
      [] tool = "todoist_delete_task" ->
            [return |-> FALSE, result |-> <<>>,
             call |-> Call(Lit("tasks/", 6) \o Val(p.task_id), "DELETE", None, None)]
      [] tool = "todoist_list_labels" ->
            [return |-> FALSE, result |-> <<>>,
             call |-> Call(Lit("labels", 6), "GET", None, None)]
      [] tool = "todoist_create_label" ->
            [return |-> FALSE, result |-> <<>>,
             call |-> Call(Lit("labels", 6), "POST", Some(create_label_data(p)), None)]

\* _make_api_request, lines 302-316: the request client.request(..) sends
Request(call, token) ==
    [params |-> call.params,
     method |-> call.method,
     url |-> API_BASE_URL \o Lit("/", 1) \o call.endpoint,
     authorization |-> Lit("Bearer ", 7) \o token,
     json |-> call.json_data]

(************************ the response and its value ***********************)
\* The value of an expression: a value, or the exception it raised.
Ok(v) == [val |-> v, ok |-> TRUE, exc |-> NoExc]

Err(e) == [val |-> JNull, ok |-> FALSE, exc |-> e]

\* What the transport delivers for a request: a response (its status and
\* whether its body decodes as JSON, to which value), or a failure.
HttpResponse(status, decodable, value) ==
    [status |-> status, decodable |-> decodable, value |-> value, kind |-> "http"]

Timeout == [status |-> 0, decodable |-> FALSE, value |-> JNull, kind |-> "timeout"]

ConnectFailure == [status |-> 0, decodable |-> FALSE, value |-> JNull, kind |-> "connect"]

NoResponse == [status |-> 0, decodable |-> FALSE, value |-> JNull, kind |-> ""]

\* response.raise_for_status(): raises unless the status is 2xx
IsSuccess(status) == status \in 200..299

\* _make_api_request, lines 309-321: what the await returns or raises.
\* Python's None is the value of a 204 and of a decoded JSON null alike.
_make_api_request(resp) ==
    IF resp.kind = "timeout"
    THEN Err(Exc("ReadTimeout", Lit("The read operation timed out", 28)))
    ELSE IF resp.kind = "connect"
    THEN Err(Exc("ConnectError", Lit("All connection attempts failed", 30)))
    ELSE IF ~IsSuccess(resp.status) THEN Err(HTTPStatusError(resp.status))
    ELSE IF resp.status = 204 THEN Ok(JNull)
    ELSE IF ~resp.decodable
    THEN Err(Exc("JSONDecodeError", Lit("Expecting value: line 1 column 1 (char 0)", 41)))
    ELSE Ok(resp.value)

(****************************** rendering **********************************)
NotSubscriptable == Exc("TypeError", Lit("object is not subscriptable", 27))

NotIterable == Exc("TypeError", Lit("object is not iterable", 22))

NoAttributeGet == Exc("AttributeError", Lit("object has no attribute 'get'", 29))

\* Evaluation in order: the first exception raised ends it.
Bind(a, F(_)) == IF a.ok THEN F(a.val) ELSE a

Bind2(a, b, F(_, _)) ==
    IF ~a.ok THEN a ELSE IF ~b.ok THEN b ELSE F(a.val, b.val)

Bind4(a, b, c, d, F(_, _, _, _)) ==
    IF ~a.ok THEN a ELSE IF ~b.ok THEN b ELSE IF ~c.ok THEN c ELSE IF ~d.ok THEN d
    ELSE F(a.val, b.val, c.val, d.val)

\* j[key]: a TypeError unless j is a dict, a KeyError unless it has the key
Sub(j, key, n) ==
    IF j.t # "dict" THEN Err(NotSubscriptable)
    ELSE IF ~Has(j.d, key) THEN Err(KeyError(key, n))
    ELSE Ok(j.d[key])

\* _format_due
_format_due(due) ==
    IF ~PyTruthy(due) THEN Ok(JStr(Lit("No due date", 11)))
    ELSE IF due.t # "dict" THEN Err(NoAttributeGet)
    ELSE IF PyTruthy(Get(due, "datetime", JNull)) THEN Ok(due.d["datetime"])
    ELSE IF PyTruthy(Get(due, "string", JNull))
    THEN Ok(JStr(Fmt(due.d["string"]) \o Lit(" (", 2)
                 \o Fmt(Get(due, "date", JStr(<<>>))) \o Lit(")", 1)))
    ELSE Ok(Get(due, "date", JStr(<<>>)))

\* _priority_label
_priority_label(priority) ==
    IF priority = JInt(1) THEN Lit("P4 (lowest)", 11)
    ELSE IF priority = JInt(2) THEN Lit("P3", 2)
    ELSE IF priority = JInt(3) THEN Lit("P2", 2)
    ELSE IF priority = JInt(4) THEN Lit("P1 (highest)", 12)
    ELSE Fmt(priority)

TruncationNotice(item_count) ==
    Lit("\n\n---\n**Response truncated** (", 30) \o IntStr(item_count)
    \o Lit(" items). Use filters to narrow results.", 39)

\* _truncate_response
_truncate_response(result, item_count) ==
    IF StrLen(result) > CHARACTER_LIMIT
    THEN Take(result, CHARACTER_LIMIT - 200) \o TruncationNotice(item_count)
    ELSE result

\* x or "none"
OrNone(str) == IF Truthy(str) THEN str ELSE Lit("none", 4)

\* ", ".join(labels) or "none"
JoinLabels(labels) ==
    IF labels.t # "list" THEN Err(Exc("TypeError", Lit("can only join an iterable", 25)))
    ELSE Ok(OrNone(Join(Lit(", ", 2), [i \in DOMAIN labels.l |-> Fmt(labels.l[i])])))

\* ", ".join(x.get("labels", [])) or "none"
LabelsText(j) == JoinLabels(Get(j, "labels", JList(<<>>)))

\* for x in value: the items, or the exception of the first step
Iterate(j) ==
    CASE j.t = "list" -> Ok(j.l)
      [] j.t = "dict" -> Ok([i \in 1..Cardinality(DOMAIN j.d) |-> JStr(Lit("<key>", 1))])
      [] OTHER -> Err(NotIterable)

Star(j) == IF PyTruthy(Get(j, "is_favorite", JNull)) THEN Lit(" <star>", 2) ELSE <<>>

Indent(j) == IF PyTruthy(Get(j, "parent_id", JNull)) THEN Lit("  ", 2) ELSE <<>>

\* todoist_list_projects, lines 416-420: the lines of one project
ProjectLines(p) ==
    IF p.t # "dict" THEN Err(NoAttributeGet)
    ELSE Bind2(Sub(p, "name", 4), Sub(p, "id", 2), LAMBDA name, id :
            Ok(<<Indent(p) \o Lit("- **", 4) \o Fmt(name) \o Lit("**", 2)
                 \o Star(p) \o Lit(" (ID: '", 7) \o Fmt(id) \o Lit("')", 2)>>
               \o (IF PyTruthy(Get(p, "comment_count", JNull))
                   THEN <<Indent(p) \o Lit("  - ", 4) \o Fmt(p.d["comment_count"])
                          \o Lit(" comments", 9)>>
                   ELSE <<>>)))

\* The priority marker of a task's heading
Marker(prio) ==
    IF prio = JInt(4) THEN Lit("<red>", 1)
    ELSE IF prio = JInt(3) THEN Lit("<orange>", 1)
    ELSE IF prio = JInt(2) THEN Lit("<blue>", 1)
    ELSE <<>>

\* t["description"][:200] + "..." if it is longer than 200 characters
Elide(str) == IF StrLen(str) > 200 THEN Take(str, 200) \o Lit("...", 3) ELSE str

\* todoist_list_tasks, lines 574-590: the lines of one task
TaskLines(t) ==
    IF t.t # "dict" THEN Err(NoAttributeGet)
    ELSE Bind4(_format_due(Get(t, "due", JNull)), LabelsText(t),
               Sub(t, "content", 7), Sub(t, "id", 2),
               LAMBDA due, labels, content, id :
            Ok(<<Lit("### ", 4) \o Marker(Get(t, "priority", JNull)) \o Lit(" ", 1)
                    \o Fmt(content),
                 Lit("- **ID**: '", 11) \o Fmt(id) \o Lit("'", 1),
                 Lit("- **Due**: ", 11) \o Fmt(due),
                 Lit("- **Priority**: ", 16) \o _priority_label(Get(t, "priority", JInt(1))),
                 Lit("- **Labels**: ", 14) \o labels>>
               \o (IF PyTruthy(Get(t, "description", JNull))
                   THEN <<Lit("- **Description**: ", 19) \o Elide(Fmt(t.d["description"]))>>
                   ELSE <<>>)
               \o << <<>> >>))

\* todoist_list_labels, lines 895-898: the line of one label
LabelLines(label) ==
    IF label.t # "dict" THEN Err(NoAttributeGet)
    ELSE Bind2(Sub(label, "name", 4), Sub(label, "id", 2), LAMBDA name, id :
            Ok(<<Lit("- **", 4) \o Fmt(name) \o Lit("**", 2) \o Star(label)
                 \o Lit(" (ID: '", 7) \o Fmt(id) \o Lit("', color: ", 10)
                 \o Fmt(Get(label, "color", JStr(Lit("default", 7)))) \o Lit(")", 1)>>))

ItemLines(kind, item) ==
    CASE kind = "project" -> ProjectLines(item)
      [] kind = "task" -> TaskLines(item)
      [] kind = "label" -> LabelLines(item)

\* lines.append(..) for each item, in the order of the response
RECURSIVE AllLines(_, _)
AllLines(kind, items) ==
    IF items = <<>> THEN Ok(<<>>)
    ELSE Bind2(ItemLines(kind, Head(items)), AllLines(kind, Tail(items)),
               LAMBDA h, r : Ok(h \o r))

(******************** the tools after the response *************************)
\* len(x) of a list or a dict
PyLen(j) == IF j.t = "list" THEN Len(j.l) ELSE Cardinality(DOMAIN j.d)

Min(a, b) == IF a <= b THEN a ELSE b

\* A list that is not cut
WholeList(tasks, limit) == tasks

\* tasks[: limit] of a list
ApplyLimit(tasks, limit) == SubSeq(tasks, 1, Min(limit, Len(tasks)))

\* tasks[: params.limit]: a list is cut; a dict takes the slice for a key
\* (unhashable before Python 3.12, a missing key since); no other value
\* is subscriptable.
Slice(j, limit, rt) ==
    CASE j.t = "list" -> Ok(JList(ApplyLimit(j.l, limit)))
      [] j.t = "dict" ->
            IF rt = "py312" THEN Err(Exc("KeyError", Lit("slice(None, limit, None)", 21)))
            ELSE Err(Exc("TypeError", Lit("unhashable type: 'slice'", 24)))
      [] OTHER -> Err(NotSubscriptable)

\* "\n".join(lines): the heading lines, then every item's lines
Markdown(heading, kind, j) ==
    Bind(Iterate(j), LAMBDA items :
        Bind(AllLines(kind, items), LAMBDA ls : Ok(Join(NL, heading \o ls))))

IsJson(p) == Val(p.response_format) = "json"

\* todoist_list_projects, lines 407-422
list_projects_render(p, projects) ==
    IF ~PyTruthy(projects) THEN Ok(Lit("No projects found.", 18))
    ELSE IF IsJson(p) THEN Ok(JsonDumps(projects))
    ELSE Bind(Markdown(<<Lit("# Todoist Projects", 18), <<>> >>, "project", projects),
              LAMBDA md : Ok(_truncate_response(md, PyLen(projects))))

\* todoist_list_tasks, lines 567-592, for the tasks left by the limit
limited_tasks_render(p, tasks) ==
    IF IsJson(p) THEN Ok(JsonDumps(tasks))
    ELSE Bind(Markdown(<<Lit("# Todoist Tasks", 15),
                         Lit("*Showing ", 9) \o IntStr(PyLen(tasks)) \o Lit(" tasks*", 7),
                         <<>> >>, "task", tasks),
              LAMBDA md : Ok(_truncate_response(md, PyLen(tasks))))

\* todoist_list_tasks, lines 561-592
list_tasks_render(p, tasks, rt) ==
    IF ~PyTruthy(tasks) THEN Ok(Lit("No tasks found matching your criteria.", 38))
    ELSE Bind(Slice(tasks, Val(p.limit), rt), LAMBDA cut : limited_tasks_render(p, cut))

\* todoist_list_labels, lines 886-900
list_labels_render(p, labels) ==
    IF ~PyTruthy(labels)
    THEN Ok(Lit("No labels found. Create labels to organize your tasks.", 54))
    ELSE IF IsJson(p) THEN Ok(JsonDumps(labels))
    ELSE Markdown(<<Lit("# Todoist Labels", 16), <<>> >>, "label", labels)

YesNo(j) == IF PyTruthy(j) THEN Lit("Yes", 3) ELSE Lit("No", 2)

\* todoist_get_project, lines 453-469
get_project_render(p, project) ==
    IF IsJson(p) THEN Ok(JsonDumps(project))
    ELSE Bind2(Sub(project, "name", 4), Sub(project, "id", 2), LAMBDA name, id :
            Ok(Join(NL,
                <<Lit("# ", 2) \o Fmt(name),
                  <<>>,
                  Lit("- **ID**: '", 11) \o Fmt(id) \o Lit("'", 1),
                  Lit("- **Color**: ", 13)
                      \o Fmt(Get(project, "color", JStr(Lit("default", 7)))),
                  Lit("- **Favorite**: ", 16) \o YesNo(Get(project, "is_favorite", JNull)),
                  Lit("- **Shared**: ", 14) \o YesNo(Get(project, "is_shared", JNull)),
                  Lit("- **Comments**: ", 16) \o Fmt(Get(project, "comment_count", JInt(0)))>>
                \o (IF PyTruthy(Get(project, "parent_id", JNull))
                    THEN <<Lit("- **Parent Project**: '", 23)
                           \o Fmt(project.d["parent_id"]) \o Lit("'", 1)>>
                    ELSE <<>>))))

\* todoist_get_task, lines 623-642
get_task_render(p, task) ==
    IF IsJson(p) THEN Ok(JsonDumps(task))
    ELSE Bind4(Sub(task, "content", 7), Sub(task, "id", 2),
               _format_due(Get(task, "due", JNull)), LabelsText(task),
               LAMBDA content, id, due, labels :
            Ok(Join(NL,
                <<Lit("# ", 2) \o Fmt(content),
                  <<>>,
                  Lit("- **ID**: '", 11) \o Fmt(id) \o Lit("'", 1),
                  Lit("- **Project**: '", 16)
                      \o Fmt(Get(task, "project_id", JStr(Lit("Inbox", 5)))) \o Lit("'", 1),
                  Lit("- **Due**: ", 11) \o Fmt(due),
                  Lit("- **Priority**: ", 16) \o _priority_label(Get(task, "priority", JInt(1))),
                  Lit("- **Labels**: ", 14) \o labels,
                  Lit("- **Created**: ", 15)
                      \o Fmt(Get(task, "created_at", JStr(Lit("unknown", 7))))>>
                \o (IF PyTruthy(Get(task, "description", JNull))
                    THEN << <<>>, Lit("## Description", 14), Fmt(task.d["description"])>>
                    ELSE <<>>)
                \o (IF PyTruthy(Get(task, "parent_id", JNull))
                    THEN <<Lit("- **Parent Task**: '", 20)
                           \o Fmt(task.d["parent_id"]) \o Lit("'", 1)>>
                    ELSE <<>>))))

\* f"<what> **{x[key]}**<middle> (ID: '{x['id']}')" of the create and
\* update tools
Created(what, j, key, n, middle) ==
    Bind2(Sub(j, key, n), Sub(j, "id", 2), LAMBDA name, id :
        Ok(what \o Fmt(name) \o Lit("**", 2) \o middle
           \o Lit(" (ID: '", 7) \o Fmt(id) \o Lit("')", 2)))

\* todoist_create_task, lines 699-700
create_task_render(task) ==
    IF task.t # "dict" THEN Err(NoAttributeGet)
    ELSE IF PyTruthy(Get(task, "due", JNull))
    THEN Bind(_format_due(Get(task, "due", JNull)), LAMBDA due :
            Created(Lit("<check> Created task **", 17), task, "content", 7,
                    Lit(" due ", 5) \o Fmt(due)))
    ELSE Created(Lit("<check> Created task **", 17), task, "content", 7, <<>>)

\* A confirmation that does not name the task
ConfirmedWithoutId(what, p) == what \o Lit("')", 2)

\* f"<what> (ID: '{params.task_id}')" of complete, reopen and delete
Confirmed(what, p) == what \o Val(p.task_id) \o Lit("')", 2)

\* Each tool's body after its await: the string it returns, or the
\* exception raised on the way.
Render(tool, p, value, rt) ==
    CASE tool = "todoist_list_projects" -> list_projects_render(p, value)
      [] tool = "todoist_get_project" -> get_project_render(p, value)
      [] tool = "todoist_create_project" ->
            Created(Lit("<check> Created project **", 20), value, "name", 4, <<>>)
      [] tool = "todoist_list_tasks" -> list_tasks_render(p, value, rt)
      [] tool = "todoist_get_task" -> get_task_render(p, value)
      [] tool = "todoist_create_task" -> create_task_render(value)
      [] tool = "todoist_update_task" ->
            Created(Lit("<check> Updated task **", 17), value, "content", 7, <<>>)
      [] tool = "todoist_complete_task" ->
            Ok(Confirmed(Lit("<check> Completed task (ID: '", 23), p))
      [] tool = "todoist_reopen_task" ->
            Ok(Confirmed(Lit("<check> Reopened task (ID: '", 22), p))
      [] tool = "todoist_delete_task" ->
            Ok(Confirmed(Lit("<wastebasket> Deleted task (ID: '", 22), p))
      [] tool = "todoist_list_labels" -> list_labels_render(p, value)
      [] tool = "todoist_create_label" ->
            Created(Lit("<check> Created label **", 18), value, "name", 4, <<>>)

\* except Exception as e: return _handle_api_error(e)
Catch(r) == IF r.ok THEN Canon(r.val) ELSE _handle_api_error(r.exc)

\* The tool's try block from the await on: the string the tool returns
\* for a response.
Finish(tool, p, resp, rt) ==
    Catch(Bind(_make_api_request(resp), LAMBDA value : Render(tool, p, value, rt)))

(************************** one invocation *********************************)
\* An invocation slot: idle, awaiting the response of the request it sent,
\* or done.  outcome: "returned" (result is the string the tool returned)
\* or "raised" (exc propagated to the host).  requests: the HTTP requests
\* the invocation has issued, in order.
Idle ==
    [raw |-> NoArgs, tool |-> "", params |-> NoArgs, exc |-> NoExc,
     result |-> <<>>, pc |-> "idle",
     requests |-> <<>>, response |-> NoResponse, outcome |-> ""]

Returned(rec, result) ==
    [rec EXCEPT !.pc = "done", !.outcome = "returned", !.result = result]

Raised(rec, e) == [rec EXCEPT !.pc = "done", !.outcome = "raised", !.exc = e]

\* A tool call up to its first suspension.  The host builds the tool's
\* input model from the arguments before it enters the tool's body, so a
\* ValidationError is raised outside the body's try block.  Inside it, the
\* tool prepares its call, _make_api_request reads the token and sends the
\* request.
Start(tool, raw, environ) ==
    LET rec == [Idle EXCEPT !.tool = tool, !.raw = raw]
        v == Validate(tool, raw)
    IN  IF v.errs # {} THEN Raised(rec, ValidationError(v.errs))
        ELSE LET ready == [rec EXCEPT !.params = v.params]
                 prep == Prepare(tool, v.params)
                 tok == _get_api_token(environ)
             IN  IF prep.return THEN Returned(ready, prep.result)
                 ELSE IF ~tok.ok THEN Returned(ready, _handle_api_error(tok.exc))
                 ELSE [ready EXCEPT !.pc = "awaiting",
                                    !.requests = <<Request(prep.call, tok.token)>>]

\* A call that sends its request again when the transport times out
SettleWithRetry(rec, resp, rt) ==
    Returned([rec EXCEPT !.response = resp,
                         !.requests = IF resp.kind = "timeout" THEN @ \o @ ELSE @],
             Finish(rec.tool, rec.params, resp, rt))

\* The rest of the call, once the transport has delivered resp.
Settle(rec, resp, rt) ==
    Returned([rec EXCEPT !.response = resp], Finish(rec.tool, rec.params, resp, rt))

(************************ the inputs explored *******************************)
With(raw, f, v) == [raw EXCEPT ![f] = v]

Blank == Chars(<<" ", " ">>)

Padded(str) == Chars(<<" ">>) \o str \o Chars(<<" ">>)

AnId == Lit("2995104339", 10)

AText == Lit("Buy milk", 8)

IdInputs == {None, Some(<<>>), Some(Blank), Some(AnId), Some(Padded(AnId))}

TextInputs == {None, Some(<<>>), Some(Blank), Some(AText)}

GoodDate == Chars(<<"2", "0", "2", "4", "-", "0", "1", "-", "1", "5">>)

DateInputs ==
    {None, Some(<<>>), Some(GoodDate), Some(Padded(GoodDate)),
     Some(Chars(<<"2", "0", "2", "4", "-", "1", "-", "5">>)),
     Some(Chars(<<"2", "0", "2", "4", "-", "0", "2", "-", "3", "0">>)),
     Some(Chars(<<"2", "0", "2", "4", "-", "1", "3", "-", "0", "1">>)),
     Some(Chars(<<"1", "5", "/", "0", "1", "/", "2", "0", "2", "4">>)),
     Some(Lit("tomorrow", 8))}

DueStringInputs == {None, Some(<<>>), Some(Lit("next Monday", 11))}

PriorityInputs == {Some(0), Some(1), Some(4), Some(5)}

LabelsInputs == {Some(<<>>), Some(<<Lit("work", 4)>>)}

DescriptionInputs == {Some(<<>>), Some(Lit("Two litres", 10))}

LimitInputs == {None, Some(0), Some(1), Some(2), Some(200), Some(201)}

FormatInputs == {None, Some("json")}

\* The arguments the host may pass to each tool.
Inputs(tool) ==
    CASE tool \in {"todoist_list_projects", "todoist_list_labels"} ->
            {With(NoArgs, "response_format", f) : f \in FormatInputs \cup {Some("xml")}}
      [] tool = "todoist_get_project" ->
            {With(With(NoArgs, "project_id", i), "response_format", f) :
                i \in IdInputs, f \in FormatInputs}
      [] tool \in {"todoist_create_project", "todoist_create_label"} ->
            {With(NoArgs, "name", n) : n \in TextInputs}
            \cup {With(With(With(NoArgs, "name", Some(AText)), "color", Some(Lit("blue", 4))),
                       "is_favorite", Some(TRUE))}
      [] tool = "todoist_list_tasks" ->
            {With(With(NoArgs, "limit", l), "response_format", f) :
                l \in LimitInputs, f \in FormatInputs}
            \cup {With(With(NoArgs, "project_id", Some(AnId)), "filter", Some(Lit("today", 5)))}
      [] tool = "todoist_get_task" ->
            {With(With(NoArgs, "task_id", i), "response_format", f) :
                i \in IdInputs, f \in FormatInputs}
      [] tool = "todoist_create_task" ->
            LET base == With(NoArgs, "content", Some(AText))
            IN  {With(NoArgs, "content", c) : c \in TextInputs}
                \cup {With(With(base, "due_string", s), "due_date", d) :
                        s \in DueStringInputs, d \in DateInputs}
                \cup {With(base, "priority", x) : x \in PriorityInputs}
                \cup {With(base, "labels", x) : x \in LabelsInputs}
                \cup {With(base, "description", x) : x \in DescriptionInputs}
                \cup {With(With(base, "project_id", Some(AnId)), "parent_id", Some(AnId))}
      [] tool = "todoist_update_task" ->
            LET base == With(NoArgs, "task_id", Some(AnId))
            IN  {With(With(NoArgs, "content", Some(AText)), "task_id", i) : i \in IdInputs}
                \cup {With(base, "content", c) : c \in TextInputs}
                \cup {With(With(base, "due_string", s), "due_date", d) :
                        s \in DueStringInputs, d \in DateInputs}
                \cup {With(base, "priority", x) : x \in PriorityInputs}
                \cup {With(base, "labels", x) : x \in LabelsInputs}
                \cup {With(base, "description", x) : x \in DescriptionInputs}
      [] tool \in {"todoist_complete_task", "todoist_reopen_task", "todoist_delete_task"} ->
            {With(NoArgs, "task_id", i) : i \in IdInputs}

\* The values of TODOIST_API_TOKEN: unset, empty, or a token.
EnvValues == {None, Some(<<>>), Some(Lit("<token A>", 40)), Some(Lit("<token B>", 40))}

\* The Python the server runs on.
Runtimes == {"py311", "py312"}

(********************** the responses explored *****************************)
Dict2(k1, v1, k2, v2) == Put(Put(EmptyDict, k1, v1), k2, v2)

Entity(key, id, name) == JDict(Dict2("id", JStr(id), key, JStr(name)))

WithKey(j, k, v) == JDict(Put(j.d, k, v))

BigLen == 12500

ProjA ==
    WithKey(WithKey(WithKey(WithKey(Entity("name", Lit("2203306141", 10), Lit("Work", 4)),
        "is_favorite", JBool(FALSE)), "parent_id", JNull), "comment_count", JInt(0)),
        "color", JStr(Lit("blue", 4)))

ProjB ==
    WithKey(WithKey(WithKey(Entity("name", Lit("2203306142", 10), Lit("Home", 4)),
        "is_favorite", JBool(TRUE)), "parent_id", JStr(Lit("2203306141", 10))),
        "comment_count", JInt(12))

NoName == JDict(Put(EmptyDict, "id", JStr(Lit("9", 1))))

Big(key, id) == Entity(key, id, Lit("<long text>", BigLen))

LabelA == WithKey(Entity("name", Lit("2156154810", 10), Lit("urgent", 6)),
                  "color", JStr(Lit("red", 3)))

LabelB == WithKey(Entity("name", Lit("2156154811", 10), Lit("work", 4)),
                  "is_favorite", JBool(TRUE))

ErrorObject == JDict(Put(EmptyDict, "error", JStr(Lit("<message>", 20))))

ADate == Lit("2024-01-15", 10)

ADateTime == Lit("2024-01-15T09:00:00Z", 20)

\* The due values a task may carry (absent: None).
DueValues ==
    {JNull, JDict(EmptyDict),
     JDict(Put(EmptyDict, "date", JStr(ADate))),
     JDict(Dict2("date", JStr(ADate), "string", JStr(Lit("Jan 15", 6)))),
     JDict(Put(Dict2("date", JStr(ADate), "string", JStr(Lit("Jan 15 9am", 10))),
               "datetime", JStr(ADateTime))),
     JDict(Put(Dict2("date", JStr(ADate), "string", JStr(<<>>)), "datetime", JStr(<<>>))),
     JDict(Put(EmptyDict, "is_recurring", JBool(FALSE))),
     JDict(Dict2("date", JStr(<<>>), "is_recurring", JBool(FALSE))),
     JDict(Put(EmptyDict, "string", JStr(Lit("someday", 7)))),
     JDict(Put(EmptyDict, "datetime", JStr(ADateTime)))}

Task(id, content) == Entity("content", id, content)

TaskDue(due) == WithKey(Task(Lit("7", 1), Lit("Pay rent", 8)), "due", due)

TaskA ==
    WithKey(WithKey(WithKey(WithKey(Task(Lit("1", 1), Lit("Buy milk", 8)),
        "priority", JInt(1)), "labels", JList(<<>>)), "due", JNull),
        "description", JStr(<<>>))

TaskB ==
    WithKey(WithKey(WithKey(WithKey(Task(Lit("2", 1), Lit("Review PR", 9)),
        "priority", JInt(4)), "labels", JList(<<JStr(Lit("work", 4)), JStr(Lit("urgent", 6))>>)),
        "due", JDict(Dict2("date", JStr(ADate), "string", JStr(Lit("Jan 15", 6))))),
        "description", JStr(Lit("<long description>", 250)))

TaskC ==
    WithKey(WithKey(Task(Lit("3", 1), Lit("Call", 4)), "priority", JInt(3)),
        "due", JDict(Put(Dict2("date", JStr(ADate), "string", JStr(Lit("9am", 3))),
                         "datetime", JStr(ADateTime))))

NullLabels == WithKey(Task(Lit("8", 1), Lit("Plan", 4)), "labels", JNull)

\* Bodies no tool expects: null, an empty object, an error object, a number.
OddBodies == {JNull, JDict(EmptyDict), ErrorObject, JInt(7)}

\* The JSON values a 2xx response to each tool's request may carry.
Bodies(tool) ==
    CASE tool = "todoist_list_projects" ->
            {JList(x) : x \in {<<>>, <<ProjA>>, <<ProjA, ProjB>>, <<ProjB, ProjA>>,
                               <<Big("name", Lit("4", 1)), Big("name", Lit("5", 1))>>,
                               <<ProjA, NoName>>, <<JStr(Lit("x", 1))>>}}
            \cup OddBodies
      [] tool = "todoist_get_project" ->
            {ProjA, ProjB, NoName, JList(<<>>), JList(<<ProjA>>)} \cup OddBodies
      [] tool = "todoist_create_project" -> {ProjA, NoName, JNull}
      [] tool = "todoist_list_tasks" ->
            {JList(x) : x \in {<<>>, <<TaskA>>, <<TaskA, TaskB>>, <<TaskB, TaskA>>,
                               <<TaskC, TaskA, TaskB>>,
                               <<Big("content", Lit("4", 1)), Big("content", Lit("5", 1))>>,
                               <<Big("content", Lit("4", 1)), Big("content", Lit("5", 1)), TaskA>>,
                               <<TaskA, NoName>>, <<TaskA, NullLabels>>,
                               <<JStr(Lit("x", 1))>>}}
            \cup OddBodies
      [] tool = "todoist_get_task" ->
            {TaskDue(d) : d \in DueValues}
            \cup {Task(Lit("7", 1), Lit("Pay rent", 8)), TaskA, TaskB, TaskC, NoName,
                  NullLabels, JList(<<>>)}
            \cup OddBodies
      [] tool = "todoist_create_task" ->
            {TaskA, TaskB, TaskDue(JDict(Put(EmptyDict, "is_recurring", JBool(FALSE)))),
             NoName, JNull, JList(<<>>)}
      [] tool = "todoist_update_task" -> {TaskA, NoName, JNull}
      [] tool \in {"todoist_complete_task", "todoist_reopen_task", "todoist_delete_task"} ->
            {JNull, JDict(EmptyDict)}
      [] tool = "todoist_list_labels" ->
            {JList(x) : x \in {<<>>, <<LabelA>>, <<LabelA, LabelB>>,
                               <<Big("name", Lit("4", 1)), Big("name", Lit("5", 1))>>,
                               <<LabelA, NoName>>, <<JStr(Lit("x", 1))>>}}
            \cup OddBodies
      [] tool = "todoist_create_label" -> {LabelA, NoName, JNull}

\* Statuses outside 2xx: the six the formatter names, another 5xx, a 3xx
\* and another 4xx.
ErrorStatuses == {400, 401, 403, 404, 429, 500, 503, 302, 418}

\* What the transport may deliver for a request of the tool.
Responses(tool) ==
    {Timeout, ConnectFailure, HttpResponse(204, FALSE, JNull), HttpResponse(200, FALSE, JNull)}
    \cup {HttpResponse(s, FALSE, JNull) : s \in ErrorStatuses}
    \cup {HttpResponse(200, TRUE, b) : b \in Bodies(tool)}

(***************************** the system **********************************)
Init ==
    /\ env \in EnvValues
    /\ inv = [p \in Procs |-> Idle]

\* The variable is changed from outside the process, at any time.
SetEnv(v) ==
    /\ v # env
    /\ env' = v
    /\ UNCHANGED inv

\* The host calls a tool; it makes one call at a time.
Invoke(p, tool, raw) ==
    /\ \A q \in Procs : inv[q].pc = "idle"
    /\ inv' = [inv EXCEPT ![p] = Start(tool, raw, env)]
    /\ UNCHANGED env

\* The transport answers the request of an awaiting invocation.
Respond(p, resp, rt) ==
    /\ inv[p].pc = "awaiting"
    /\ inv' = [inv EXCEPT ![p] = Settle(inv[p], resp, rt)]
    /\ UNCHANGED env

\* The host takes the outcome of a call.
Return(p) ==
    /\ inv[p].pc = "done"
    /\ inv' = [inv EXCEPT ![p] = Idle]
    /\ UNCHANGED env

Next ==
    \/ \E v \in EnvValues : SetEnv(v)
    \/ \E p \in Procs, tool \in Tools : \E raw \in Inputs(tool) : Invoke(p, tool, raw)
    \/ \E p \in {q \in Procs : inv[q].pc = "awaiting"} :
            \E resp \in Responses(inv[p].tool), rt \in Runtimes : Respond(p, resp, rt)
    \/ \E p \in Procs : Return(p)

Spec == Init /\ [][Next]_vars

(*********************** calls in flight together ***************************)
\* The tools are coroutines: the host may call one while others are
\* suspended at their await.  The calls explored together: complete-task
\* and reopen-task, of two tasks or of a blank id, answered by 204 or by a
\* timeout.
ConcurrentTools == {"todoist_complete_task", "todoist_reopen_task"}

OtherId == Lit("2995104340", 10)

ConcurrentInputs == {With(NoArgs, "task_id", Some(i)) : i \in {AnId, OtherId, Blank}}

ConcurrentResponses == {HttpResponse(204, FALSE, JNull), Timeout}

\* A call that leaves its input model in a module-level variable, which
\* the calls suspended at their await then read.
InvokeSharingParams(p, tool, raw) ==
    /\ inv[p].pc = "idle"
    /\ inv' = [q \in Procs |->
                  IF q = p THEN Start(tool, raw, env)
                  ELSE IF inv[q].pc = "awaiting"
                  THEN [inv[q] EXCEPT !.params = Start(tool, raw, env).params]
                  ELSE inv[q]]
    /\ UNCHANGED env

\* The host calls a tool, whatever the other calls are doing.
InvokeConcurrently(p, tool, raw) ==
    /\ inv[p].pc = "idle"
    /\ inv' = [inv EXCEPT ![p] = Start(tool, raw, env)]
    /\ UNCHANGED env

NextConcurrent ==
    \/ \E v \in EnvValues : SetEnv(v)
    \/ \E p \in Procs, tool \in ConcurrentTools, raw \in ConcurrentInputs :
            InvokeConcurrently(p, tool, raw)
    \/ \E p \in {q \in Procs : inv[q].pc = "awaiting"} :
            \E resp \in ConcurrentResponses, rt \in Runtimes : Respond(p, resp, rt)
    \/ \E p \in Procs : Return(p)

SpecConcurrent == Init /\ [][NextConcurrent]_vars

(************************** what the claims read ***************************)
Busy(p) == inv[p].pc # "idle"

Done(p) == inv[p].pc = "done"

\* The host's arguments passed the tool's input model.
ValidInput(p) == Validate(inv[p].tool, inv[p].raw).errs = {}

\* The string starts with the marker "Error:".
StartsWithError(str) == str # <<>> /\ str[1].s = "Error: "

\* A string of no character, or of whitespace only.
IsBlank(str) == \A i \in DOMAIN str : str[i].n = 0 \/ str[i].s \in {" ", "\t", "\n"}

\* The field of the tool's input that must be a non-empty string.
RequiredString(tool) ==
    CASE tool = "todoist_get_project" -> {"project_id"}
      [] tool \in {"todoist_create_project", "todoist_create_label"} -> {"name"}
      [] tool = "todoist_create_task" -> {"content"}
      [] tool \in {"todoist_get_task", "todoist_update_task", "todoist_complete_task",
                   "todoist_reopen_task", "todoist_delete_task"} -> {"task_id"}
      [] OTHER -> {}

\* The call failed: its input was invalid, it had nothing to update or no
\* token, the transport or the status failed it, or the tool raised while
\* it rendered the value.
Failed(p) ==
    \/ ~ValidInput(p)
    \/ inv[p].requests = <<>>
    \/ ~Bind(_make_api_request(inv[p].response),
             LAMBDA value : Render(inv[p].tool, inv[p].params, value, "py311")).ok

(********************************* C1 **************************************)
\* C1: every failed call of every tool, a failed validation of the input
\* included, ends by returning a string that starts with "Error:"; no
\* exception propagates to the host.
C1_FailureReturnsErrorString ==
    \A p \in Procs :
        Done(p) /\ Failed(p) =>
            inv[p].outcome = "returned" /\ StartsWithError(inv[p].result)

(********************************* C2 **************************************)
\* YYYY-MM-DD: four digits, two digits, two digits, naming a day.
StrictDate(str) ==
    /\ Len(str) = 10
    /\ \A i \in {1, 2, 3, 4, 6, 7, 9, 10} : str[i].n = 1 /\ str[i].s \in Digits
    /\ str[5] = P("-", 1) /\ str[8] = P("-", 1)
    /\ StrptimeOk(str)

\* The value the field holds once the surrounding whitespace is trimmed.
Trimmed(str) ==
    LET keep == {i \in DOMAIN str : ~IsBlank(<<str[i]>>)}
    IN  IF keep = {} THEN <<>>
        ELSE SubSeq(str, CHOOSE i \in keep : \A j \in keep : i <= j,
                         CHOOSE i \in keep : \A j \in keep : i >= j)

BadDueDate(p) ==
    /\ inv[p].tool \in {"todoist_create_task", "todoist_update_task"}
    /\ inv[p].raw.due_date # None
    /\ ~StrictDate(Trimmed(Val(inv[p].raw.due_date)))

\* C2: a due_date of create-task or update-task that is not a strict
\* YYYY-MM-DD date fails validation with an error naming the field and
\* the format, and no HTTP request is made.
C2_DueDateStrict ==
    \A p \in Procs :
        Busy(p) /\ BadDueDate(p) =>
            /\ Done(p) /\ inv[p].requests = <<>>
            /\ inv[p].exc.type = "ValidationError"
            /\ \E e \in inv[p].exc.errors :
                   e.loc = "due_date"
                   /\ e.msg = "Value error, due_date must be in YYYY-MM-DD format"

(********************************* C3 **************************************)
BadRequiredString(p) ==
    \E f \in RequiredString(inv[p].tool) :
        inv[p].raw[f] # None /\ IsBlank(Val(inv[p].raw[f]))

BadPriority(p) ==
    /\ inv[p].tool \in {"todoist_create_task", "todoist_update_task"}
    /\ inv[p].raw.priority # None
    /\ Val(inv[p].raw.priority) \notin 1..4

BadLimit(p) ==
    /\ inv[p].tool = "todoist_list_tasks"
    /\ inv[p].raw.limit # None
    /\ Val(inv[p].raw.limit) \notin 1..200

\* C3: an empty or whitespace-only required string, a priority outside
\* 1..4 and a list-tasks limit outside 1..200 are rejected by validation,
\* and no HTTP request is made.
C3_InvalidInputRejected ==
    \A p \in Procs :
        Busy(p) /\ (BadRequiredString(p) \/ BadPriority(p) \/ BadLimit(p)) =>
            /\ Done(p) /\ inv[p].requests = <<>> /\ inv[p].response = NoResponse
            /\ inv[p].exc.type = "ValidationError"
            /\ inv[p].exc.errors # {}

\* A get-task call with a whitespace-only task_id has been rejected.
C3_Witness ==
    \E p \in Procs :
        /\ Done(p) /\ inv[p].tool = "todoist_get_task"
        /\ inv[p].raw.task_id = Some(Blank)
        /\ inv[p].exc.type = "ValidationError" /\ inv[p].requests = <<>>

(********************************* C4 **************************************)
\* The identifier a call names, as the tool receives it.
IdOf(p, f) == Trimmed(Val(inv[p].raw[f]))

\* The dispatch table: each tool's method and path.
DispatchRow(p) ==
    LET tool == inv[p].tool
    IN  CASE tool = "todoist_list_projects" -> [method |-> "GET", path |-> Lit("projects", 8)]
          [] tool = "todoist_get_project" ->
                [method |-> "GET", path |-> Lit("projects/", 9) \o IdOf(p, "project_id")]
          [] tool = "todoist_create_project" ->
                [method |-> "POST", path |-> Lit("projects", 8)]
          [] tool = "todoist_list_tasks" -> [method |-> "GET", path |-> Lit("tasks", 5)]
          [] tool = "todoist_get_task" ->
                [method |-> "GET", path |-> Lit("tasks/", 6) \o IdOf(p, "task_id")]
          [] tool = "todoist_create_task" -> [method |-> "POST", path |-> Lit("tasks", 5)]
          [] tool = "todoist_update_task" ->
                [method |-> "POST", path |-> Lit("tasks/", 6) \o IdOf(p, "task_id")]
          [] tool = "todoist_complete_task" ->
                [method |-> "POST",
                 path |-> Lit("tasks/", 6) \o IdOf(p, "task_id") \o Lit("/close", 6)]
          [] tool = "todoist_reopen_task" ->
                [method |-> "POST",
                 path |-> Lit("tasks/", 6) \o IdOf(p, "task_id") \o Lit("/reopen", 7)]
          [] tool = "todoist_delete_task" ->
                [method |-> "DELETE", path |-> Lit("tasks/", 6) \o IdOf(p, "task_id")]
          [] tool = "todoist_list_labels" -> [method |-> "GET", path |-> Lit("labels", 6)]
          [] tool = "todoist_create_label" -> [method |-> "POST", path |-> Lit("labels", 6)]

\* Every request the call has issued is the one of its dispatch row.
MatchesRow(p) ==
    \A i \in DOMAIN inv[p].requests :
        /\ inv[p].requests[i].method = DispatchRow(p).method
        /\ inv[p].requests[i].url
               = Lit("https://api.todoist.com/rest/v2", 31) \o Lit("/", 1) \o DispatchRow(p).path

\* The message of the call's result, after the marker.
IsLocalError(str, first) == StartsWithError(str) /\ Len(str) >= 2 /\ str[2].s = first

LocalErrorReturned(p) ==
    /\ Done(p) /\ inv[p].outcome = "returned"
    /\ \/ IsLocalError(inv[p].result,
                       "No fields to update. Provide at least one field to change.")
       \/ IsLocalError(inv[p].result, "TODOIST_API_TOKEN environment variable not set. ")

\* C4, as stated: every call whose input passes validation issues exactly
\* one HTTP request, with the method and path of its dispatch row.
C4_ExactlyOneRequest ==
    \A p \in Procs :
        Done(p) /\ ValidInput(p) => Len(inv[p].requests) = 1 /\ MatchesRow(p)

\* C4, amended: a call whose input passes validation issues at most one
\* HTTP request, with the method and path of its dispatch row, and never a
\* second; it issues none exactly when it returns the local "No fields to
\* update" error or the missing-token error.
C4_AtMostOneRequest ==
    \A p \in Procs :
        Busy(p) /\ ValidInput(p) =>
            /\ Len(inv[p].requests) <= 1
            /\ MatchesRow(p)
            /\ inv[p].requests = <<>> <=> LocalErrorReturned(p)

\* A complete-task call has timed out and has issued its one request.
C4_Witness ==
    \E p \in Procs :
        /\ Done(p) /\ inv[p].tool = "todoist_complete_task"
        /\ inv[p].response = Timeout
        /\ Len(inv[p].requests) = 1
        /\ inv[p].requests[1].method = "POST"

(********************************* C5 **************************************)
NoOptionalField(p) ==
    \A f \in {"content", "description", "due_string", "due_date", "priority", "labels"} :
        inv[p].raw[f] = None

\* C5: update-task called with a task_id and no optional field returns the
\* local "No fields to update" error and issues no HTTP request.
C5_NothingToUpdate ==
    \A p \in Procs :
        Busy(p) /\ inv[p].tool = "todoist_update_task" /\ ValidInput(p)
        /\ NoOptionalField(p) =>
            /\ Done(p) /\ inv[p].outcome = "returned"
            /\ IsLocalError(inv[p].result,
                            "No fields to update. Provide at least one field to change.")
            /\ inv[p].requests = <<>> /\ inv[p].response = NoResponse

\* An update-task call naming only a task has returned.
C5_Witness ==
    \E p \in Procs :
        /\ Done(p) /\ inv[p].tool = "todoist_update_task"
        /\ inv[p].raw = With(NoArgs, "task_id", Some(AnId))
        /\ inv[p].outcome = "returned"

(********************************* C6 **************************************)
\* The call got a 200 response whose body decoded as JSON.
Decoded(p) ==
    /\ inv[p].requests # <<>>
    /\ inv[p].response.kind = "http" /\ inv[p].response.status = 200
    /\ inv[p].response.decodable

\* What failed a call that reached the try block of its tool, on the
\* Python rt: the missing token, or what the request or the rendering of
\* its value raised.
FailureOf(p, rt) ==
    IF inv[p].requests = <<>> THEN Exc("ValueError", TokenErrorMessage)
    ELSE Bind(_make_api_request(inv[p].response),
              LAMBDA value : Render(inv[p].tool, inv[p].params, value, rt)).exc

\* The message of the formatter's table for an HTTP status.
StatusRow(status) ==
    CASE status = 400 -> Lit("Invalid request. Check your parameters are correct.", 51)
      [] status = 401 -> Lit("Invalid API token. Check TODOIST_API_TOKEN is correct.", 54)
      [] status = 403 ->
            Lit("Permission denied. You may not have access to this resource.", 60)
      [] status = 404 -> Lit("Resource not found. Check the ID is correct.", 44)
      [] status = 429 ->
            Lit("Rate limit exceeded. Please wait before making more requests.", 61)
      [] status >= 500 -> Lit("Todoist server error. Please try again later.", 45)
      [] OTHER -> Lit("API request failed with status ", 31) \o IntStr(status)

\* The row of the formatter's table for each failure: a status, a timeout,
\* a validation or configuration failure raised locally, anything else.
TableRow(e) ==
    CASE e.type = "HTTPStatusError" -> StatusRow(e.status)
      [] e.type = "ReadTimeout" -> Lit("Request timed out. Please try again.", 36)
      [] e.type \in {"ValueError", "ValidationError"} -> e.msg
      [] OTHER -> TypeName(e) \o Lit(": ", 2) \o e.msg

\* C6: the formatter maps every failure onto the message of its row: 400,
\* 401, 403, 404, 429, 5xx and any other status, a timeout, a local
\* validation or configuration failure ("Error: " and its message), and
\* for anything else the generic fallback naming the failure's type.
\* Stated of the calls that entered their tool's body, whose failures are
\* the ones handed to the formatter.
C6_FormatterTable ==
    \A p \in Procs :
        Done(p) /\ ValidInput(p) /\ Failed(p)
        /\ ~(inv[p].tool = "todoist_update_task" /\ inv[p].requests = <<>>) =>
            /\ inv[p].outcome = "returned"
            /\ \E rt \in Runtimes :
                   inv[p].result = Canon(Lit("Error: ", 7) \o TableRow(FailureOf(p, rt)))

(********************************* C7 **************************************)
TextMode(p) == inv[p].params.response_format = Some("markdown")

JsonMode(p) == inv[p].params.response_format = Some("json")

ListTools == {"todoist_list_projects", "todoist_list_tasks", "todoist_list_labels"}

\* Where the truncation notice starts in a string, if it carries one.
NoticeAt(str) == {i \in DOMAIN str : str[i].s = "\n\n---\n**Response truncated** ("}

\* C7: a list operation in text mode returns at most 25,000 characters; a
\* longer markdown is cut to its first 24,800 characters, followed by the
\* truncation notice.
C7_TextCapped ==
    \A p \in Procs :
        Done(p) /\ inv[p].tool \in ListTools /\ TextMode(p)
        /\ inv[p].outcome = "returned" =>
            /\ StrLen(inv[p].result) <= 25000
            /\ \A i \in NoticeAt(inv[p].result) :
                   StrLen(SubSeq(inv[p].result, 1, i - 1)) = 24800

(********************************* C8 **************************************)
JsonTools ==
    {"todoist_list_projects", "todoist_get_project", "todoist_list_tasks",
     "todoist_get_task", "todoist_list_labels"}

\* The first min(n, limit) items of a list
FirstItems(items, limit) ==
    SubSeq(items, 1, IF Len(items) <= limit THEN Len(items) ELSE limit)

\* The value a JSON-mode call is to serialize: the body, or for list-tasks
\* the tasks within the limit.
Serialized(p) ==
    IF inv[p].tool = "todoist_list_tasks" /\ inv[p].response.value.t = "list"
    THEN JList(FirstItems(inv[p].response.value.l, Val(inv[p].params.limit)))
    ELSE inv[p].response.value

\* C8: in JSON mode the five reading tools return the serialization,
\* indented by two spaces, of every 2xx body that decodes to an object or
\* an array, the empty array included.
C8_JsonSerialized ==
    \A p \in Procs :
        Done(p) /\ inv[p].tool \in JsonTools /\ JsonMode(p) /\ Decoded(p)
        /\ inv[p].response.value.t \in {"list", "dict"} =>
            /\ inv[p].outcome = "returned"
            /\ inv[p].result
                   = <<[n |-> 2, s |-> "json.dumps(indent=2)", j |-> Serialized(p)]>>

(********************************* C9 **************************************)
\* The due object has the field, set to a non-empty string.
DueSet(due, k) == due.t = "dict" /\ Has(due.d, k) /\ due.d[k].t = "str" /\ due.d[k].s # <<>>

NoneSet(due) == ~DueSet(due, "datetime") /\ ~DueSet(due, "string") /\ ~DueSet(due, "date")

\* The rendering of a due value: datetime, else string with date, else
\* date, else "No due date".
DueRule(due) ==
    IF DueSet(due, "datetime") THEN due.d["datetime"].s
    ELSE IF DueSet(due, "string")
    THEN due.d["string"].s \o Lit(" (", 2) \o due.d["date"].s \o Lit(")", 1)
    ELSE IF DueSet(due, "date") THEN due.d["date"].s
    ELSE Lit("No due date", 11)

\* What follows a label in a text, up to the end of its line.
AfterLabel(str, label) ==
    LET i == CHOOSE i \in DOMAIN str : str[i].s = label
        ends == {j \in (i + 1)..Len(str) : str[j].s = "\n"} \cup {Len(str) + 1}
    IN  SubSeq(str, i + 1, (CHOOSE j \in ends : \A k \in ends : j <= k) - 1)

\* The call rendered a task, the get-task tool's text, with its due line.
TaskRendered(p) ==
    /\ Done(p) /\ inv[p].tool = "todoist_get_task" /\ TextMode(p) /\ Decoded(p)
    /\ inv[p].outcome = "returned"
    /\ \E i \in DOMAIN inv[p].result : inv[p].result[i].s = "- **Due**: "

DueOfBody(p) == Get(inv[p].response.value, "due", JNull)

\* C9: a task's due line shows datetime, else string with date, else date;
\* in every other case (no due, an empty due, a due object with none of
\* the three fields set) it shows "No due date".
C9_DueRendering ==
    \A p \in Procs :
        TaskRendered(p)
        /\ (DueSet(DueOfBody(p), "datetime") \/ DueSet(DueOfBody(p), "date")
            \/ NoneSet(DueOfBody(p))) =>
            AfterLabel(inv[p].result, "- **Due**: ") = DueRule(DueOfBody(p))

(********************************* C10 *************************************)
\* The body is a list of tasks the tool can render.
TaskList(j) ==
    /\ j.t = "list"
    /\ \A i \in DOMAIN j.l :
           /\ j.l[i].t = "dict" /\ Has(j.l[i].d, "id") /\ Has(j.l[i].d, "content")
           /\ Get(j.l[i], "labels", JList(<<>>)).t = "list"

IdsOf(items) == [i \in DOMAIN items |-> items[i].d["id"].s]

\* The ids of the tasks a text shows, in the order of their headings.
IdsShown(str) ==
    LET at == {i \in 1..(Len(str) - 1) : str[i] = P("- **ID**: '", 11)}
    IN  [k \in 1..Cardinality(at) |->
            <<str[(CHOOSE i \in at : Cardinality({j \in at : j <= i}) = k) + 1]>>]

\* The ids of the tasks a result holds: of a serialization, of a text.
IdsIn(str) ==
    IF str # <<>> /\ str[1].s = "json.dumps(indent=2)" THEN IdsOf(str[1].j.l)
    ELSE IdsShown(str)

\* A list-tasks call has returned for a body of n tasks.
TasksListed(p) ==
    /\ Done(p) /\ inv[p].tool = "todoist_list_tasks" /\ Decoded(p)
    /\ TaskList(inv[p].response.value)
    /\ inv[p].outcome = "returned"

WithinLimit(p) == IdsOf(FirstItems(inv[p].response.value.l, Val(inv[p].params.limit)))

IsPrefix(a, b) == Len(a) <= Len(b) /\ a = SubSeq(b, 1, Len(a))

\* C10, as stated: for a response of n tasks and a limit L the output of
\* list-tasks holds exactly the first min(n, L) tasks, in the order of the
\* response, in text and in structured mode.
C10_FirstTasks ==
    \A p \in Procs : TasksListed(p) => IdsIn(inv[p].result) = WithinLimit(p)

\* C10, amended: the output holds exactly the first min(n, L) tasks, in
\* the order of the response, in structured mode and in every text that
\* is not truncated; a truncated text holds the first of them, in that
\* order, then the truncation notice.
C10_FirstTasksUnlessTruncated ==
    \A p \in Procs :
        TasksListed(p) =>
            IF NoticeAt(inv[p].result) = {}
            THEN IdsIn(inv[p].result) = WithinLimit(p)
            ELSE TextMode(p) /\ IsPrefix(IdsIn(inv[p].result), WithinLimit(p))

\* A list-tasks call with limit 2 has rendered a response of three tasks
\* as text.
C10_Witness ==
    \E p \in Procs :
        /\ TasksListed(p) /\ TextMode(p)
        /\ inv[p].params.limit = Some(2)
        /\ Len(inv[p].response.value.l) = 3
        /\ Len(IdsIn(inv[p].result)) = 2

(********************************* C11 *************************************)
\* The call of complete-task or reopen-task was answered by 204.
Answered204(p) ==
    /\ Done(p) /\ inv[p].tool \in {"todoist_complete_task", "todoist_reopen_task"}
    /\ inv[p].response = HttpResponse(204, FALSE, JNull)

\* The success string of complete-task and of reopen-task for a task.
SuccessString(tool, id) ==
    (IF tool = "todoist_complete_task" THEN Lit("<check> Completed task (ID: '", 23)
     ELSE Lit("<check> Reopened task (ID: '", 22))
    \o id \o Lit("')", 2)

\* Two calls of the same tool for the same task, both answered by 204.
CalledTwice(p, q) ==
    /\ p # q /\ Answered204(p) /\ Answered204(q)
    /\ inv[p].tool = inv[q].tool
    /\ IdOf(p, "task_id") = IdOf(q, "task_id")

\* C11: complete-task and reopen-task called twice with the same task id,
\* the remote answering 204 both times, return the same success string
\* both times, and each of the two calls issues exactly one request.
C11_SameTwice ==
    \A p, q \in Procs :
        CalledTwice(p, q) =>
            /\ inv[p].result = inv[q].result
            /\ inv[p].outcome = "returned" /\ inv[q].outcome = "returned"
            /\ inv[p].result = SuccessString(inv[p].tool, IdOf(p, "task_id"))
            /\ Len(inv[p].requests) = 1 /\ Len(inv[q].requests) = 1

\* The outcomes of two reopen-task calls for the same task are both held
\* by the host.
C11_Witness ==
    \E p, q \in Procs :
        /\ CalledTwice(p, q) /\ inv[p].tool = "todoist_reopen_task"
        /\ inv[p].raw.task_id = Some(AnId)
        /\ inv[q].result = SuccessString("todoist_reopen_task", AnId)

(********************************* C12 *************************************)
\* The variable is absent or empty.
NoToken(environ) == environ = None \/ Val(environ) = <<>>

\* The call returned the error of the missing token and sent nothing.
TokenErrorReturned(rec) ==
    /\ rec.pc = "done" /\ rec.outcome = "returned" /\ rec.requests = <<>>
    /\ rec.result
           = <<P("Error: ", 7),
               P("TODOIST_API_TOKEN environment variable not set. ", 48),
               P("Get your token from: Todoist Settings -> Integrations -> Developer -> API token", 76)>>

\* The call sent its request with the token as bearer.
SentWithToken(rec, token) ==
    /\ Len(rec.requests) = 1
    /\ rec.requests[1].authorization = Lit("Bearer ", 7) \o token

\* The host's arguments leave update-task nothing to change.
NothingToChange(raw) ==
    /\ raw.content = None \/ IsBlank(Val(raw.content))
    /\ raw.due_string = None \/ IsBlank(Val(raw.due_string))
    /\ raw.due_date = None \/ IsBlank(Val(raw.due_date))
    /\ raw.description = None /\ raw.priority = None /\ raw.labels = None

\* The call has a request to send: its input is valid, and for update-task
\* there is a field to change.
ReachesRequest(rec) ==
    /\ Validate(rec.tool, rec.raw).errs = {}
    /\ ~(rec.tool = "todoist_update_task" /\ NothingToChange(rec.raw))

\* C12, as stated: the token is read at each call; a call made while the
\* variable is absent or empty returns the "Error:" string naming the
\* variable and where to obtain the token and sends nothing, and a call
\* made while it is set sends a bearer header with the value of that time.
C12_TokenAtCall ==
    [][\A p \in Procs :
          inv[p].pc = "idle" /\ inv'[p].pc # "idle" =>
              IF NoToken(env) THEN TokenErrorReturned(inv'[p])
              ELSE SentWithToken(inv'[p], Val(env))]_vars

\* C12, amended: the same of every call that has a request to send (its
\* input passes validation, and for update-task there is a field to
\* change); the other calls end before the variable is read.
C12_TokenAtCallOfRequest ==
    [][\A p \in Procs :
          inv[p].pc = "idle" /\ inv'[p].pc # "idle" =>
              IF ~ReachesRequest(inv'[p])
              THEN inv'[p].pc = "done" /\ inv'[p].requests = <<>>
                   /\ ~TokenErrorReturned(inv'[p])
              ELSE IF NoToken(env) THEN TokenErrorReturned(inv'[p])
              ELSE SentWithToken(inv'[p], Val(env))]_vars

\* A request in flight carries the token of its call while the variable
\* has since been changed to another token.
C12_Witness ==
    \E p \in Procs :
        /\ inv[p].pc = "awaiting"
        /\ SentWithToken(inv[p], Lit("<token A>", 40))
        /\ env = Some(Lit("<token B>", 40))

(********************************* C13 *************************************)
\* The slot holds what its call is when run alone, under some value of the
\* variable and some Python: the call up to its await, or the call
\* settled by the slot's own response.
RunInIsolation(rec) ==
    \E environ \in EnvValues :
        LET alone == Start(rec.tool, rec.raw, environ)
        IN  \/ rec = alone
            \/ /\ alone.pc = "awaiting" /\ rec.pc = "done"
               /\ alone.requests = rec.requests
               /\ \E rt \in Runtimes : rec = Settle(alone, rec.response, rt)

ExecutorReturned(p) ==
    /\ inv[p].response.kind = "http"
    /\ inv[p].response.status \in 200..299
    /\ _make_api_request(inv[p].response).ok

\* C14: the executor returns its "no value" result if and only if the
\* status was 204: the result of every 2xx response that carries a body is
\* distinct from it.
C14_NoValueOnlyFor204 ==
    \A p \in Procs :
        ExecutorReturned(p) =>
            (_make_api_request(inv[p].response).val = JNull
                <=> inv[p].response.status = 204)

(********************************* C15 *************************************)
\* The call received a 2xx response whose body is not JSON.
Undecodable(p) ==
    /\ Done(p) /\ inv[p].requests # <<>>
    /\ inv[p].response.kind = "http"
    /\ inv[p].response.status \in 200..299 /\ inv[p].response.status # 204
    /\ ~inv[p].response.decodable

\* C15: a 2xx response whose body is not valid JSON gives the generic
\* fallback, which names the type of the failure: "Error: ", the type,
\* ": " and the failure's message.
C15_UndecodableIsGeneric ==
    \A p \in Procs :
        Undecodable(p) =>
            /\ inv[p].outcome = "returned"
            /\ Len(inv[p].result) >= 4
            /\ inv[p].result[1] = P("Error: ", 7)
            /\ inv[p].result[2] = P("JSONDecodeError", 15)
            /\ inv[p].result[3] = P(": ", 2)

(********************************* C16 *************************************)
\* The caller supplied the string field with a non-empty value.
Supplied(raw, f) == raw[f] # None /\ ~IsBlank(Val(raw[f]))

\* The keys the body of a create-task or update-task request is to carry,
\* by the caller's arguments.
BodyKeys(tool, raw) ==
    {f \in {"description", "project_id", "parent_id", "content", "due_string"} :
        Supplied(raw, f)}
    \cup (IF tool = "todoist_update_task" THEN {} ELSE {"content"})
    \cup (IF tool = "todoist_update_task" /\ raw.description # None
          THEN {"description"} ELSE {})
    \cup (IF ~Supplied(raw, "due_string") /\ Supplied(raw, "due_date")
          THEN {"due_date"} ELSE {})
    \cup (IF raw.priority # None THEN {"priority"} ELSE {})
    \cup (IF raw.labels # None /\ (tool = "todoist_update_task" \/ Val(raw.labels) # <<>>)
          THEN {"labels"} ELSE {})

\* The value the body is to carry for a key.
BodyValue(raw, f) ==
    CASE f = "priority" -> JInt(Val(raw.priority))
      [] f = "labels" ->
            JList([i \in DOMAIN Val(raw.labels) |-> JStr(Trimmed(Val(raw.labels)[i]))])
      [] OTHER -> JStr(Trimmed(Val(raw[f])))

\* The call of create-task or update-task has sent its request.
TaskBodySent(p) ==
    /\ inv[p].tool \in {"todoist_create_task", "todoist_update_task"}
    /\ inv[p].requests # <<>>

BodyOf(p) == Val(inv[p].requests[1].json)

\* C16: the body of a create-task or update-task request never carries
\* both due_string and due_date: a non-empty due_string is sent and the
\* due_date dropped, and due_date is sent only without it.  Every other
\* optional field is sent if and only if it was supplied with a non-empty
\* value, except update-task's description and labels, sent whenever they
\* are not null.
C16_BodyFields ==
    \A p \in Procs :
        TaskBodySent(p) =>
            /\ DOMAIN BodyOf(p) = BodyKeys(inv[p].tool, inv[p].raw)
            /\ \A f \in DOMAIN BodyOf(p) : BodyOf(p)[f] = BodyValue(inv[p].raw, f)
            /\ ~({"due_string", "due_date"} \subseteq DOMAIN BodyOf(p))

\* A create-task call given both a due_string and a due_date has sent the
\* due_string alone.
C16_Witness ==
    \E p \in Procs :
        /\ TaskBodySent(p) /\ inv[p].tool = "todoist_create_task"
        /\ inv[p].raw.due_string = Some(Lit("next Monday", 11))
        /\ inv[p].raw.due_date = Some(GoodDate)
        /\ "due_string" \in DOMAIN BodyOf(p) /\ "due_date" \notin DOMAIN BodyOf(p)

=====
